---- MODULE Spec2Model ----
(***************************************************************************)
(* hyperdb-helper: the HyperdbHelper class (src/index.js) run against a    *)
(* file system.  init scaffolds a database directory, build loads the      *)
(* schema module and drives the two external builders, cleanup removes the *)
(* generated code.  Paths are modelled as (absolute?, segments) and the    *)
(* file system as a map from absolute normalized paths to contents.        *)
(***************************************************************************)
EXTENDS Integers, Sequences, FiniteSets, TLC

VARIABLES
  fs,           \* the file system: absolute normalized path -> content
  config,       \* this.config of the helper object
  ctorOptions,  \* the options object the helper was constructed with
  last,         \* the last API call: its arguments, the file system before it, its outcome
  pc,           \* "idle", or "buildSchema" while buildSchema runs
  callLog,      \* the external builder calls made by the running/last build
  schemaModule, \* the exports of the schema module loaded by the running build
  nOps,         \* number of API calls made so far
  nWrites,      \* number of files the user wrote by hand so far
  depIn,        \* input of the dependency check (package manifest object)
  depOut        \* output of the dependency check

vars == <<fs, config, ctorOptions, last, pc, callLog, schemaModule, nOps, nWrites, depIn, depOut>>

\* ---------------------------------------------------------------- bounds

MaxOps == 2
MaxUserWrites == 1

\* ------------------------------------------------------------- JS values

Undefined == [t |-> "undefined"]
Bool(b) == [t |-> "boolean", b |-> b]
Word(s) == [t |-> "word", s |-> s]
\* A path string: "/a/b" is Path(TRUE, <<"a","b">>), "./x.js" is Path(FALSE, <<".","x.js">>),
\* the empty string is Path(FALSE, <<>>).
Path(abs, segs) == [t |-> "string", abs |-> abs, segs |-> segs]
EmptyString == Path(FALSE, <<>>)
\* A parsed package manifest: type is a Word or Undefined, deps is Undefined or
\* a map from dependency name to version string.
Object(type, deps) == [t |-> "object", type |-> type, deps |-> deps]
EmptyObject == Object(Undefined, Undefined)
Deps(m) == [t |-> "deps", m |-> m]
Options(examples) == [t |-> "options", examples |-> examples]

\* JavaScript truthiness, as used by `||`, `!` and `if`.
Truthy(v) ==
  CASE v.t = "undefined" -> FALSE
    [] v.t = "boolean" -> v.b
    [] v.t = "word" -> v.s # ""
    [] v.t = "string" -> v.abs \/ v.segs # <<>>
    [] OTHER -> TRUE

\* Property read on an object: a missing key reads as undefined.
Get(obj, k) == IF k \in DOMAIN obj THEN obj[k] ELSE Undefined
\* Property assignment obj[k] = v.
Set(obj, k, v) == [x \in DOMAIN obj \cup {k} |-> IF x = k THEN v ELSE obj[x]]
\* Object spread { ...a, ...b }.
Spread(a, b) == [x \in DOMAIN a \cup DOMAIN b |-> IF x \in DOMAIN b THEN b[x] ELSE a[x]]
EmptyObj == [x \in {} |-> Undefined]

\* `const x = v` followed by F(x): v is evaluated once.
Bind(v, F(_)) == CHOOSE r \in {F(x) : x \in {v}} : TRUE

\* ----------------------------------------------------------------- paths

\* path.normalize on segments: "." is dropped, ".." removes the segment before it.
RECURSIVE NormSegs(_, _, _)
NormSegs(segs, acc, abs) ==
  IF segs = <<>> THEN acc
  ELSE LET s == Head(segs)
           r == Tail(segs)
       IN IF s = "." THEN NormSegs(r, acc, abs)
          ELSE IF s = ".."
            THEN IF acc # <<>> /\ acc[Len(acc)] # ".."
                   THEN NormSegs(r, SubSeq(acc, 1, Len(acc) - 1), abs)
                   ELSE IF abs THEN NormSegs(r, acc, abs)
                               ELSE NormSegs(r, Append(acc, ".."), abs)
            ELSE NormSegs(r, Append(acc, s), abs)

IsAbsolute(p) == p.abs

\* path.join(a, b): the result is absolute iff the first non-empty part is.
PathJoin(a, b) ==
  LET abs == IF a = EmptyString THEN b.abs ELSE a.abs
  IN Path(abs, NormSegs(a.segs \o b.segs, <<>>, abs))

\* path.dirname of a normalized path.
Dirname(p) ==
  IF p.segs = <<>> THEN p ELSE Path(p.abs, SubSeq(p.segs, 1, Len(p.segs) - 1))

\* process.cwd()
Cwd == Path(TRUE, <<"proj">>)

\* The file-system key of a path handed to an fs call: relative paths are
\* taken from the working directory.
Key(p) == IF p.abs THEN NormSegs(p.segs, <<>>, TRUE) ELSE NormSegs(Cwd.segs \o p.segs, <<>>, TRUE)

\* ----------------------------------------------------------- file system

Dir == [k |-> "dir", v |-> ""]
File(kind, variant) == [k |-> kind, v |-> variant]

IsPrefix(a, b) == Len(a) <= Len(b) /\ SubSeq(b, 1, Len(a)) = a
Prefixes(key) == {SubSeq(key, 1, n) : n \in 0 .. Len(key)}
Parent(key) == SubSeq(key, 1, Len(key) - 1)

\* fs.access: "ok", "ENOENT", or "ENOTDIR" when a file stands where a directory is needed.
Access(f, p) ==
  Bind(Key(p), LAMBDA key :
    IF key \in DOMAIN f THEN "ok"
    ELSE IF \E a \in Prefixes(key) : a \in DOMAIN f /\ f[a].k # "dir" THEN "ENOTDIR"
    ELSE "ENOENT")

\* Results of a step that may throw: err = "" when it did not.
Ok(f) == [err |-> "", fs |-> f]
Fail(e, f) == [err |-> e, fs |-> f]

\* fs.mkdir(p, { recursive: true })
MkdirP(f, p) ==
  Bind(Key(p), LAMBDA key :
    IF \E a \in Prefixes(key) : a \in DOMAIN f /\ f[a].k # "dir"
      THEN Fail("EEXIST", f)
      ELSE Ok([x \in DOMAIN f \cup Prefixes(key) |-> IF x \in DOMAIN f THEN f[x] ELSE Dir]))

\* fs.mkdir(p)
Mkdir(f, p) ==
  Bind(Key(p), LAMBDA key :
    IF key \in DOMAIN f THEN Fail("EEXIST", f)
    ELSE IF Parent(key) \notin DOMAIN f THEN Fail("ENOENT", f)
    ELSE IF f[Parent(key)].k # "dir" THEN Fail("ENOTDIR", f)
    ELSE Ok([x \in DOMAIN f \cup {key} |-> IF x = key THEN Dir ELSE f[x]]))

\* fs.writeFile(p, content)
WriteFile(f, p, content) ==
  Bind(Key(p), LAMBDA key :
    IF key \in DOMAIN f /\ f[key].k = "dir" THEN Fail("EISDIR", f)
    ELSE IF key = <<>> \/ Parent(key) \notin DOMAIN f THEN Fail("ENOENT", f)
    ELSE IF f[Parent(key)].k # "dir" THEN Fail("ENOTDIR", f)
    ELSE Ok([x \in DOMAIN f \cup {key} |-> IF x = key THEN content ELSE f[x]]))

\* fs.rm(p, { recursive: true, force: true })
RmRf(f, p) ==
  Bind(Key(p), LAMBDA key : Ok([x \in {y \in DOMAIN f : ~IsPrefix(key, y)} |-> f[x]]))

\* Sequencing of awaited steps: a step runs only if nothing threw before it.
ThenMkdir(r, p) == Bind(r, LAMBDA x : IF x.err # "" THEN x ELSE Mkdir(x.fs, p))
ThenWrite(r, p, content) ==
  Bind(r, LAMBDA x : IF x.err # "" THEN x ELSE WriteFile(x.fs, p, content))

\* --------------------------------------------------------- configuration

\* HyperdbHelper.defaultConfig
defaultConfig ==
  [k \in {"databaseConfigDirectory", "generatedCodeDirectory", "functionsFilepath",
          "schemaFilepath", "configFilepath", "projectPackageJsonFilepath", "package"} |->
     CASE k = "databaseConfigDirectory" -> Path(FALSE, <<".", "database">>)
       [] k = "generatedCodeDirectory" -> Path(FALSE, <<".", "generated">>)
       [] k = "functionsFilepath" -> Path(FALSE, <<".", "functions.js">>)
       [] k = "schemaFilepath" -> Path(FALSE, <<".", "schema.js">>)
       [] k = "configFilepath" -> Path(FALSE, <<".", "config.js">>)
       [] k = "projectPackageJsonFilepath" -> Path(FALSE, <<".", "package.json">>)
       [] OTHER -> EmptyObject]

\* this.requiredDependencies, set by the constructor
requiredDependencies == <<"hyperschema", "hyperdb", "corestore">>

\* The constructor: this.config = { ...defaultConfig, ...options }
Constructor(options) == Spread(defaultConfig, options)

\* The named exports of src/templates/basic.js and src/templates/examples.js.
BasicTemplates == {"configFileTemplate", "schemaFileTemplate", "functionFileTemplate"}
ExampleTemplates == {"schemaFileTemplate", "functionFileTemplate", "exampleIndexFileTemplate"}

\* The default export of a config.js a user wrote by hand, by variant.
UserConfigModule(v) ==
  CASE v = "A" ->
         [k \in {"schemaFilepath", "generatedCodeDirectory", "databaseConfigDirectory"} |->
            CASE k = "schemaFilepath" -> Path(FALSE, <<".", "s.js">>)
              [] k = "generatedCodeDirectory" -> Path(TRUE, <<"out">>)
              [] OTHER -> Path(TRUE, <<"elsewhere">>)]
    [] v = "B" ->
         [k \in {"functionsFilepath", "projectPackageJsonFilepath"} |->
            CASE k = "functionsFilepath" -> EmptyString
              [] OTHER -> Path(FALSE, <<"..", "package.json">>)]
    [] v = "C" -> [k \in {"moduleType"} |-> Word("module")]
    [] OTHER -> EmptyObj

\* JSON.parse of a package.json, by variant; threw for a file that is not JSON.
ParsePackageJson(v) ==
  CASE v = "bare" -> [threw |-> FALSE, value |-> EmptyObject]
    [] v = "module" ->
         [threw |-> FALSE,
          value |-> Object(Word("module"),
                           Deps([d \in {"hyperschema", "hyperdb", "corestore"} |-> "^1.0.0"]))]
    [] v = "commonjs" ->
         [threw |-> FALSE,
          value |-> Object(Word("commonjs"), Deps([d \in {"hyperdb"} |-> "^1.0.0"]))]
    [] OTHER -> [threw |-> TRUE, value |-> Undefined]

\* getConfig(configFilepath): import() of the file and a spread of its default
\* export.  The template config.js has only a named export, so its default is
\* undefined and the spread is {}.
getConfig(f, configFilepath) ==
  Bind(Key(configFilepath), LAMBDA key :
    IF key \notin DOMAIN f \/ f[key].k = "dir"
      THEN [threw |-> TRUE, value |-> EmptyObj]
      ELSE IF f[key].k = "configModule"
        THEN [threw |-> FALSE, value |-> UserConfigModule(f[key].v)]
        ELSE [threw |-> FALSE, value |-> EmptyObj])

\* getPackageJson(dir): undefined when there is no package.json
getPackageJson(f, dir) ==
  Bind(PathJoin(dir, Path(FALSE, <<"package.json">>)), LAMBDA packageJsonFilepath :
    IF Access(f, packageJsonFilepath) = "ENOTDIR" THEN [threw |-> TRUE, value |-> Undefined]
    ELSE IF Access(f, packageJsonFilepath) = "ENOENT" THEN [threw |-> FALSE, value |-> Undefined]
    ELSE IF f[Key(packageJsonFilepath)].k # "packageJson" THEN [threw |-> TRUE, value |-> Undefined]
    ELSE ParsePackageJson(f[Key(packageJsonFilepath)].v))

\* getDatabaseConfigDirectory(databaseFilepathArgument = './database')
getDatabaseConfigDirectory(databaseFilepathArgument) ==
  Bind(IF databaseFilepathArgument = Undefined THEN Path(FALSE, <<".", "database">>)
                                               ELSE databaseFilepathArgument,
       LAMBDA arg : IF IsAbsolute(arg) THEN arg ELSE PathJoin(Cwd, arg))

\* Mutant: a relative filepath is returned as it is, not joined to the directory.
getFilepathFromConfigNoJoin(cfg, configProperty, defaultFilepath) ==
  IF Truthy(Get(cfg, configProperty)) THEN Get(cfg, configProperty) ELSE defaultFilepath

\* getFilepathFromConfig(config, configProperty, defaultFilepath)
getFilepathFromConfig(cfg, configProperty, defaultFilepath) ==
  Bind(IF Truthy(Get(cfg, configProperty)) THEN Get(cfg, configProperty) ELSE defaultFilepath,
       LAMBDA filepath :
         IF IsAbsolute(filepath) THEN filepath
         ELSE PathJoin(cfg["databaseConfigDirectory"], filepath))

\* Mutant: the spreads in the other order, { ...userConfig, ...defaultConfig, ... }.
MergedLiteralDefaultsWin(userConfig, databaseConfigDirectory) ==
  Set(Spread(userConfig, defaultConfig), "databaseConfigDirectory", databaseConfigDirectory)

\* The object literal of mergeConfig: { ...defaultConfig, ...userConfig, databaseConfigDirectory }
MergedLiteral(userConfig, databaseConfigDirectory) ==
  Set(Spread(defaultConfig, userConfig), "databaseConfigDirectory", databaseConfigDirectory)

\* config[property] = getFilepathFromConfig(config, property, defaultFilepath)
DeriveFilepath(cfg, property, defaultFilepath) ==
  Bind(cfg, LAMBDA c : Set(c, property, getFilepathFromConfig(c, property, defaultFilepath)))

\* config[property] = path.join(config[base], name)
DeriveJoined(cfg, property, base, name) ==
  Bind(cfg, LAMBDA c : Set(c, property, PathJoin(c[base], Path(FALSE, <<name>>))))

\* try { config.package = await getPackageJson(process.cwd()) } catch (error) {}
DerivePackage(cfg, pkg) ==
  Bind(<<cfg, pkg>>, LAMBDA x : IF x[2].threw THEN x[1] ELSE Set(x[1], "package", x[2].value))

\* if (config.package) { config.moduleType = config.package.type || 'commonjs' }
DeriveModuleType(cfg) ==
  Bind(cfg, LAMBDA c :
    IF ~Truthy(c["package"]) THEN c
    ELSE IF Truthy(c["package"].type) THEN Set(c, "moduleType", c["package"].type)
    ELSE Set(c, "moduleType", Word("commonjs")))

\* The assignments of mergeConfig after the object literal, in program order.
DerivedConfig(f, cfg, options) ==
  LET c1 == Set(cfg, "examples", options.examples)
      c2 == DeriveFilepath(c1, "functionsFilepath", Path(FALSE, <<".", "functions.js">>))
      c3 == DeriveFilepath(c2, "schemaFilepath", Path(FALSE, <<".", "schema.js">>))
      c4 == DeriveFilepath(c3, "configFilepath", Path(FALSE, <<".", "config.js">>))
      c5 == DeriveFilepath(c4, "projectPackageJsonFilepath", Path(FALSE, <<".", "package.json">>))
      c6 == DeriveJoined(c5, "databaseConfigJsonFilepath", "databaseConfigDirectory", "package.json")
      c7 == DeriveFilepath(c6, "generatedCodeDirectory", Path(FALSE, <<".", "generated">>))
      c8 == DeriveJoined(c7, "generatedPackageJsonFilepath", "generatedCodeDirectory", "package.json")
      c9 == DeriveJoined(c8, "hyperschemaDirectory", "generatedCodeDirectory", "schemas")
      c10 == DeriveJoined(c9, "hyperdbDirectory", "generatedCodeDirectory", "database")
  IN DeriveModuleType(DerivePackage(c10, getPackageJson(f, Cwd)))

\* The user config mergeConfig loads from <databaseConfigDirectory>/config.js,
\* {} when the import throws.
LoadUserConfig(f, databaseConfigDirectory) ==
  getConfig(f, PathJoin(databaseConfigDirectory, Path(FALSE, <<"config.js">>))).value

\* mergeConfig(filepath, options).  err is "" when it returned.
mergeConfig(f, filepath, options) ==
  IF options = Undefined
    THEN [err |-> "TypeError: reading 'examples' of undefined", config |-> EmptyObj]
    ELSE Bind(getDatabaseConfigDirectory(filepath), LAMBDA databaseConfigDirectory :
           [err |-> "",
            config |-> DerivedConfig(f,
                         MergedLiteral(LoadUserConfig(f, databaseConfigDirectory),
                                       databaseConfigDirectory),
                         options)])

\* validateConfig(config): the required fields that are missing (falsy)
MissingFields(cfg) ==
  {field \in {"databaseConfigDirectory", "generatedCodeDirectory", "functionsFilepath",
              "schemaFilepath", "configFilepath", "projectPackageJsonFilepath",
              "databaseConfigJsonFilepath", "generatedPackageJsonFilepath",
              "hyperschemaDirectory", "hyperdbDirectory", "moduleType"} :
     ~Truthy(Get(cfg, field))}

\* checkPackageDependencies(), on this.config.package
checkPackageDependencies(package) ==
  IF ~Truthy(package) THEN requiredDependencies
  ELSE LET dependencies == IF Truthy(package.deps) THEN package.deps.m ELSE [d \in {} |-> ""]
       IN SelectSeq(requiredDependencies,
                    LAMBDA dependency : ~(dependency \in DOMAIN dependencies
                                          /\ dependencies[dependency] # ""))

\* ------------------------------------------------------------ scaffolding

\* A template call followed by fs.writeFile: calling a name the template
\* module does not export throws a TypeError before anything is written.
ThenWriteTemplate(r, exports, name, p, content) ==
  Bind(r, LAMBDA x :
    IF x.err # "" THEN x
    ELSE IF name \notin exports THEN Fail("TypeError: template is not a function", x.fs)
    ELSE WriteFile(x.fs, p, content))

TemplateVariant(cfg) == IF Truthy(cfg["examples"]) THEN "examples" ELSE "basic"
TemplateExports(cfg) == IF Truthy(cfg["examples"]) THEN ExampleTemplates ELSE BasicTemplates

createConfigFile(r, cfg) ==
  ThenWriteTemplate(r, BasicTemplates, "configFileTemplate", cfg["configFilepath"],
                    File("configTemplate", ""))

createFunctionsFile(r, cfg) ==
  ThenWriteTemplate(r, TemplateExports(cfg), "functionFileTemplate", cfg["functionsFilepath"],
                    File("functionsTemplate", TemplateVariant(cfg)))

createSchemaFile(r, cfg) ==
  ThenWriteTemplate(r, TemplateExports(cfg), "schemaFileTemplate", cfg["schemaFilepath"],
                    File("schemaTemplate", TemplateVariant(cfg)))

createDatabaseConfigPackageJsonFile(r, cfg) ==
  ThenWriteTemplate(r, BasicTemplates, "packageJsonTemplate", cfg["databaseConfigJsonFilepath"],
                    File("packageJsonTemplate", "module"))

createGeneratedPackageJsonFile(r, cfg) ==
  ThenWriteTemplate(r, BasicTemplates, "packageJsonTemplate", cfg["generatedPackageJsonFilepath"],
                    File("packageJsonTemplate", "commonjs"))

createExampleIndexFile(r, cfg, indexFilepath) ==
  ThenWriteTemplate(r, ExampleTemplates, "exampleIndexFileTemplate", indexFilepath,
                    File("exampleIndex", Get(cfg, "moduleType").s))

\* path.join(path.dirname(databaseConfigDirectory), 'index.js')
ExampleIndexFilepath(cfg) ==
  PathJoin(Dirname(cfg["databaseConfigDirectory"]), Path(FALSE, <<"index.js">>))

ErrDirExists == "Error: Schema directory already exists"
ErrIndexExists == "Error: index.js file already exists"
ErrNoPackageJson == "Error: package.json not found in project directory"
ErrMissingFields == "Missing required config fields"
ErrDirNotFound == "Error: Database directory not found"
ErrOptions == "TypeError: reading 'examples' of undefined"

\* Mutant: the existing-directory guard is missing.
createDefaultFilesGuardNoDirCheck(f, cfg) ==
  IF Truthy(cfg["examples"]) /\ Access(f, ExampleIndexFilepath(cfg)) = "ok"
    THEN ErrIndexExists ELSE ""

\* Mutant: the existing-index.js guard is missing.
createDefaultFilesGuardNoIndexCheck(f, cfg) ==
  IF Access(f, cfg["databaseConfigDirectory"]) = "ok" THEN ErrDirExists ELSE ""

\* The two guards of createDefaultFiles: "" when both pass.
createDefaultFilesGuard(f, cfg) ==
  Bind(<<Access(f, cfg["databaseConfigDirectory"]), Access(f, ExampleIndexFilepath(cfg))>>,
       LAMBDA a :
         IF a[1] = "ENOTDIR" THEN "ENOTDIR"
         ELSE IF a[1] = "ok" THEN ErrDirExists
         ELSE IF Truthy(cfg["examples"]) /\ a[2] = "ENOTDIR" THEN "ENOTDIR"
         ELSE IF Truthy(cfg["examples"]) /\ a[2] = "ok" THEN ErrIndexExists
         ELSE "")

\* createDefaultFiles()
createDefaultFiles(f, cfg) ==
  Bind(createDefaultFilesGuard(f, cfg), LAMBDA guard :
  IF guard # "" THEN Fail(guard, f)
  ELSE LET r1 == MkdirP(f, cfg["databaseConfigDirectory"])
           r2 == createConfigFile(r1, cfg)
           r3 == createFunctionsFile(r2, cfg)
           r4 == createSchemaFile(r3, cfg)
           r5 == ThenMkdir(r4, cfg["generatedCodeDirectory"])
           r6 == createDatabaseConfigPackageJsonFile(r5, cfg)
           r7 == createGeneratedPackageJsonFile(r6, cfg)
           r8 == IF Truthy(cfg["examples"])
                   THEN createExampleIndexFile(r7, cfg, ExampleIndexFilepath(cfg))
                   ELSE r7
       IN r8)

\* init(filepath, options): the call's outcome, the file system and this.config after it
Outcome(err, f, cfg, ret) == [err |-> err, fs |-> f, config |-> cfg, ret |-> ret]

init(f, thisConfig, filepath, options) ==
  Bind(mergeConfig(f, filepath, options), LAMBDA m :
    IF m.err # "" THEN Outcome(m.err, f, thisConfig, <<>>)
    ELSE IF MissingFields(m.config) # {} THEN Outcome(ErrMissingFields, f, m.config, <<>>)
    ELSE IF Access(f, Path(FALSE, <<".", "package.json">>)) # "ok"
      THEN Outcome(ErrNoPackageJson, f, m.config, <<>>)
    ELSE Bind(createDefaultFiles(f, m.config), LAMBDA r :
           IF r.err # "" THEN Outcome(r.err, r.fs, m.config, <<>>)
           ELSE Outcome("", r.fs, m.config, checkPackageDependencies(m.config["package"]))))

\* ------------------------------------------------------------------ build

\* getSchemaDefinitions(schemaFilepath): import() of the schema module; its exports
getSchemaDefinitions(f, schemaFilepath) ==
  Bind(Key(schemaFilepath), LAMBDA key :
    IF key \notin DOMAIN f \/ f[key].k = "dir" THEN [threw |-> TRUE, exports |-> {}]
    ELSE IF f[key].k = "schemaTemplate"
      THEN [threw |-> FALSE, exports |-> {"createSchema", "createDatabase"}]
    ELSE IF f[key].k = "schemaModule" /\ f[key].v = "full"
      THEN [threw |-> FALSE, exports |-> {"createSchema", "createDatabase"}]
    ELSE IF f[key].k = "schemaModule" /\ f[key].v = "noDatabase"
      THEN [threw |-> FALSE, exports |-> {"createSchema"}]
    ELSE [threw |-> FALSE, exports |-> {}])

\* build(filepath, options) up to the call of buildSchema
build(f, thisConfig, filepath, options) ==
  Bind(mergeConfig(f, filepath, options), LAMBDA m :
    IF m.err # "" THEN [err |-> m.err, config |-> thisConfig, exports |-> {}, imported |-> FALSE]
    ELSE IF Access(f, m.config["databaseConfigDirectory"]) = "ENOENT"
      THEN [err |-> ErrDirNotFound, config |-> m.config, exports |-> {}, imported |-> FALSE]
    ELSE IF Access(f, m.config["databaseConfigDirectory"]) = "ENOTDIR"
      THEN [err |-> "ENOTDIR", config |-> m.config, exports |-> {}, imported |-> FALSE]
    ELSE Bind(getSchemaDefinitions(f, m.config["schemaFilepath"]), LAMBDA module :
           IF module.threw
             THEN [err |-> "ERR_MODULE_NOT_FOUND", config |-> m.config, exports |-> {},
                   imported |-> FALSE]
             ELSE [err |-> "", config |-> m.config, exports |-> module.exports,
                   imported |-> TRUE]))

\* Mutant: the database builder is created before the schema is persisted.
buildSchemaStatementSwapped(i) ==
  CASE i = 1 -> "Hyperschema.from"
    [] i = 2 -> "createSchema"
    [] i = 3 -> "HyperDB.from"
    [] i = 4 -> "Hyperschema.toDisk"
    [] i = 5 -> "createDatabase"
    [] OTHER -> "HyperDB.toDisk"

\* The statements of buildSchema, in program order.
buildSchemaStatement(i) ==
  CASE i = 1 -> "Hyperschema.from"
    [] i = 2 -> "createSchema"
    [] i = 3 -> "Hyperschema.toDisk"
    [] i = 4 -> "HyperDB.from"
    [] i = 5 -> "createDatabase"
    [] OTHER -> "HyperDB.toDisk"
BuildSchemaLength == 6

\* What an external builder's toDisk leaves on disk: its directory with an index.js.
toDisk(f, directory) ==
  ThenWrite(MkdirP(f, directory), PathJoin(directory, Path(FALSE, <<"index.js">>)),
            File("generated", ""))

\* One statement of buildSchema: err is "" when it did not throw.
buildSchemaStep(f, cfg, exports, statement) ==
  CASE statement \in {"createSchema", "createDatabase"} ->
         IF statement \in exports THEN Ok(f)
         ELSE Fail("TypeError: schemaModule callback is not a function", f)
    [] statement = "Hyperschema.toDisk" -> toDisk(f, cfg["hyperschemaDirectory"])
    [] statement = "HyperDB.toDisk" -> toDisk(f, cfg["hyperdbDirectory"])
    [] OTHER -> Ok(f)

\* cleanup(): fs.rm of this.config.generatedCodeDirectory, recursive and forced.
\* force silences ENOENT only; any other failure of fs.rm lands in the catch
\* block, whose this.logger is undefined.
cleanup(f, thisConfig) ==
  IF Access(f, thisConfig["generatedCodeDirectory"]) = "ENOTDIR"
    THEN Fail("TypeError: reading 'warn' of undefined", f)
    ELSE RmRf(f, thisConfig["generatedCodeDirectory"])

\* buildSchema run to its end or to the statement that throws: the file system after it.
RECURSIVE buildSchema(_, _, _, _)
buildSchema(f, cfg, exports, i) ==
  IF i > BuildSchemaLength THEN f
  ELSE Bind(buildSchemaStep(f, cfg, exports, buildSchemaStatement(i)), LAMBDA r :
         IF r.err # "" THEN r.fs ELSE buildSchema(r.fs, cfg, exports, i + 1))

\* ------------------------------------------- command line (bin/cli.mjs)

\* defaultConfig of bin/cli.mjs
cliDefaultConfig ==
  [k \in {"schemaConfigDirectory", "generatedDirectory", "generatedSchemaDirectory",
          "generatedDatabaseDirectory", "functionsFilepath", "schemasFilepath",
          "configFilepath", "packageJsonFilepath", "package"} |->
     CASE k = "schemaConfigDirectory" -> Path(FALSE, <<".", "schemas">>)
       [] k = "generatedDirectory" -> Path(FALSE, <<".", "generated">>)
       [] k = "generatedSchemaDirectory" -> Path(FALSE, <<".", "generated", "schema">>)
       [] k = "generatedDatabaseDirectory" -> Path(FALSE, <<".", "generated", "database">>)
       [] k = "functionsFilepath" -> Path(FALSE, <<".", "functions.js">>)
       [] k = "schemasFilepath" -> Path(FALSE, <<".", "schemas.js">>)
       [] k = "configFilepath" -> Path(FALSE, <<".", "config.js">>)
       [] k = "packageJsonFilepath" -> Path(FALSE, <<".", "package.json">>)
       [] OTHER -> EmptyObject]

\* The named exports of bin/templates.mjs.
TemplatesMjs ==
  {"configFileTemplate", "schemaFileTemplate", "functionsFileTemplate", "createIndexFileTemplate"}

\* The object the config.js written from configFileTemplate assigns to module.exports.
cliConfigFileTemplate ==
  [k \in {"schemasFilepath", "functionsFilepath", "generatedDirectory"} |->
     CASE k = "schemasFilepath" -> Path(FALSE, <<".", "schemas.js">>)
       [] k = "functionsFilepath" -> Path(FALSE, <<".", "functions.js">>)
       [] OTHER -> Path(FALSE, <<".", "generated">>)]

\* The module system import() applies to a .js file of a directory: that of
\* the nearest package.json above it, CommonJS when there is none.
RECURSIVE PackageScope(_, _)
PackageScope(f, dirKey) ==
  IF Append(dirKey, "package.json") \in DOMAIN f
    THEN IF f[Append(dirKey, "package.json")].k # "packageJson" THEN "invalid"
         ELSE Bind(ParsePackageJson(f[Append(dirKey, "package.json")].v), LAMBDA parsed :
                IF parsed.threw THEN "invalid"
                ELSE IF parsed.value.type = Word("module") THEN "module" ELSE "commonjs")
  ELSE IF dirKey = <<>> THEN "commonjs"
  ELSE PackageScope(f, Parent(dirKey))

\* getConfig(configFilepath) of bin/cli.mjs: the config.js the command wrote
\* assigns module.exports, which import() accepts in a CommonJS scope only.
cliGetConfig(f, configFilepath) ==
  Bind(Key(configFilepath), LAMBDA key :
    IF key \notin DOMAIN f \/ f[key].k = "dir"
      THEN [threw |-> TRUE, value |-> EmptyObj]
    ELSE IF f[key].k = "cliConfigTemplate"
      THEN IF PackageScope(f, Parent(key)) = "commonjs"
             THEN [threw |-> FALSE, value |-> cliConfigFileTemplate]
             ELSE [threw |-> TRUE, value |-> EmptyObj]
    ELSE IF f[key].k = "configModule"
      THEN [threw |-> FALSE, value |-> UserConfigModule(f[key].v)]
    ELSE [threw |-> FALSE, value |-> EmptyObj])

\* Mutant: the default directory of the newer command, ./database.
getSchemaConfigDirectoryDatabase(schemasFilepathArgument) ==
  getDatabaseConfigDirectory(schemasFilepathArgument)

\* getSchemaConfigDirectory(schemasFilepathArgument = './schemas')
getSchemaConfigDirectory(schemasFilepathArgument) ==
  Bind(IF schemasFilepathArgument = Undefined THEN Path(FALSE, <<".", "schemas">>)
                                              ELSE schemasFilepathArgument,
       LAMBDA arg : IF IsAbsolute(arg) THEN arg ELSE PathJoin(Cwd, arg))

\* getFilepathFromConfig(config, configProperty, defaultFilepath) of bin/cli.mjs
cliGetFilepathFromConfig(cfg, configProperty, defaultFilepath) ==
  Bind(IF Truthy(Get(cfg, configProperty)) THEN Get(cfg, configProperty) ELSE defaultFilepath,
       LAMBDA filepath :
         IF IsAbsolute(filepath) THEN filepath
         ELSE PathJoin(cfg["schemaConfigDirectory"], filepath))

\* config[property] = getFilepathFromConfig(config, property, defaultFilepath)
cliDeriveFilepath(cfg, property, defaultFilepath) ==
  Bind(cfg, LAMBDA c : Set(c, property, cliGetFilepathFromConfig(c, property, defaultFilepath)))

\* getPackageJson(dir) of bin/cli.mjs: readFile throws when there is no file
cliGetPackageJson(f, dir) ==
  Bind(Key(PathJoin(dir, Path(FALSE, <<"package.json">>))), LAMBDA key :
    IF key \notin DOMAIN f \/ f[key].k # "packageJson" THEN [threw |-> TRUE, value |-> Undefined]
    ELSE ParsePackageJson(f[key].v))

\* mergeConfig(filepath) of bin/cli.mjs
cliMergeConfig(f, filepath) ==
  Bind(getSchemaConfigDirectory(filepath), LAMBDA schemaConfigDirectory :
    LET userConfig ==
          cliGetConfig(f, PathJoin(schemaConfigDirectory, Path(FALSE, <<"config.js">>))).value
        c0 == Set(Spread(cliDefaultConfig, userConfig), "schemaConfigDirectory",
                  schemaConfigDirectory)
        c1 == cliDeriveFilepath(c0, "functionsFilepath", Path(FALSE, <<".", "functions.js">>))
        c2 == cliDeriveFilepath(c1, "schemasFilepath", Path(FALSE, <<".", "schemas.js">>))
        c3 == cliDeriveFilepath(c2, "configFilepath", Path(FALSE, <<".", "config.js">>))
        c4 == cliDeriveFilepath(c3, "packageJsonFilepath", Path(FALSE, <<".", "package.json">>))
        c5 == cliDeriveFilepath(c4, "generatedDirectory", Path(FALSE, <<".", "generated">>))
        c6 == cliDeriveFilepath(c5, "generatedSchemaDirectory", Path(FALSE, <<"schema">>))
        c7 == cliDeriveFilepath(c6, "generatedDatabaseDirectory", Path(FALSE, <<"database">>))
    IN DerivePackage(c7, cliGetPackageJson(f, Cwd)))

\* createDefaultFiles(config) of bin/cli.mjs: process.exit(1) when the
\* directory or the index.js is there; any failure of fs.access lets it go on.
cliCreateDefaultFiles(f, cfg) ==
  Bind(PathJoin(Dirname(cfg["schemaConfigDirectory"]), Path(FALSE, <<"index.js">>)),
       LAMBDA indexFilepath :
    IF Access(f, cfg["schemaConfigDirectory"]) = "ok" THEN Fail("exit 1", f)
    ELSE IF Access(f, indexFilepath) = "ok" THEN Fail("exit 1", f)
    ELSE LET r1 == MkdirP(f, cfg["schemaConfigDirectory"])
             r2 == ThenWriteTemplate(r1, TemplatesMjs, "configFileTemplate",
                                     cfg["configFilepath"], File("cliConfigTemplate", ""))
             r3 == ThenWriteTemplate(r2, TemplatesMjs, "functionsFileTemplate",
                                     cfg["functionsFilepath"], File("cliFunctionsTemplate", ""))
             r4 == ThenWriteTemplate(r3, TemplatesMjs, "schemaFileTemplate",
                                     cfg["schemasFilepath"], File("cliSchemasTemplate", ""))
             r5 == ThenWriteTemplate(r4, TemplatesMjs, "createIndexFileTemplate",
                                     indexFilepath, File("cliExampleIndex", ""))
         IN r5)

\* checkPackageDependencies(packageJson, requiredDependencies) of bin/cli.mjs
cliCheckPackageDependencies(packageJson, required) ==
  IF ~Truthy(packageJson) THEN required
  ELSE LET dependencies == IF Truthy(packageJson.deps) THEN packageJson.deps.m
                                                       ELSE [d \in {} |-> ""]
       IN SelectSeq(required,
                    LAMBDA dependency : ~(dependency \in DOMAIN dependencies
                                          /\ dependencies[dependency] # ""))

\* The init command: mergeConfig, createDefaultFiles, the dependency check.
\* err is "" for a run that ends normally; ret is the list it asks to install.
cliInit(f, filepath) ==
  Bind(cliMergeConfig(f, filepath), LAMBDA cfg :
    Bind(cliCreateDefaultFiles(f, cfg), LAMBDA r :
      IF r.err # "" THEN Outcome(r.err, r.fs, cfg, <<>>)
      ELSE Outcome("", r.fs, cfg,
                   cliCheckPackageDependencies(cfg["package"],
                                               <<"hyperschema", "hyperdb", "corestore">>))))

\* ---------------------------------------------------------- state machine

\* The arguments the API is called with.
Filepaths == {Undefined, Path(FALSE, <<"db", "main">>), Path(TRUE, <<"srv", "db">>)}
OptionsArgs == {Undefined, Options(Bool(FALSE)), Options(Bool(TRUE))}
\* The directory arguments the init command is run with.
CliFilepaths == {Undefined, Path(TRUE, <<"srv", "schemas">>)}
ConstructorOptions ==
  {EmptyObj, [k \in {"generatedCodeDirectory"} |-> Path(FALSE, <<".", "out">>)]}

\* The project directory before the helper is used: /proj, with or without a
\* package.json and an index.js of the user's.
PackageJsonVariants == {"none", "garbage", "bare", "module", "commonjs"}
InitialFs(pkg, withIndex) ==
  LET dirs == {<<>>, <<"proj">>, <<"srv">>}
      files == (IF pkg = "none" THEN {} ELSE {<<"proj", "package.json">>})
               \cup (IF withIndex THEN {<<"proj", "index.js">>} ELSE {})
  IN [x \in dirs \cup files |->
        IF x \in dirs THEN Dir
        ELSE IF x = <<"proj", "package.json">> THEN File("packageJson", pkg)
        ELSE File("userFile", "")]

\* Files a user writes by hand into ./database: a config.js with a default
\* export and the schema module it points to.
UserFiles(bundle) ==
  CASE bundle = "A" ->
         <<<<Path(TRUE, <<"proj", "database", "config.js">>), File("configModule", "A")>>,
           <<Path(TRUE, <<"proj", "database", "s.js">>), File("schemaModule", "full")>>>>
    [] bundle = "B" ->
         <<<<Path(TRUE, <<"proj", "database", "config.js">>), File("configModule", "B")>>,
           <<Path(TRUE, <<"proj", "database", "schema.js">>), File("schemaModule", "noDatabase")>>>>
    [] bundle = "C" ->
         <<<<Path(TRUE, <<"proj", "database", "config.js">>), File("configModule", "C")>>>>
    [] OTHER ->
         <<<<Path(TRUE, <<"proj", "index.js">>), File("userFile", "")>>>>
UserBundles == {"A", "B", "C", "index"}

\* The project after an earlier process ran init and then build on the
\* default directory, each with a helper of its own.
EarlierRun(f) ==
  Bind(init(f, Constructor(EmptyObj), Undefined, Options(Bool(FALSE))).fs, LAMBDA g :
    Bind(build(g, Constructor(EmptyObj), Undefined, Options(Bool(FALSE))), LAMBDA b :
      IF b.err # "" THEN g ELSE buildSchema(g, b.config, b.exports, 1)))

RECURSIVE WriteAll(_, _)
WriteAll(f, files) ==
  IF files = <<>> THEN f
  ELSE Bind(ThenWrite(MkdirP(f, Dirname(Head(files)[1])), Head(files)[1], Head(files)[2]).fs,
            LAMBDA g : WriteAll(g, Tail(files)))

Call(op, filepath, options, before, err, ret, imported) ==
  [op |-> op, filepath |-> filepath, options |-> options, before |-> before,
   err |-> err, ret |-> ret, imported |-> imported]

Init ==
  /\ \E pkg \in PackageJsonVariants, withIndex \in BOOLEAN, built \in BOOLEAN :
       fs = IF built THEN EarlierRun(InitialFs(pkg, withIndex)) ELSE InitialFs(pkg, withIndex)
  /\ ctorOptions \in ConstructorOptions
  /\ config = Constructor(ctorOptions)
  /\ last = Call("none", Undefined, Undefined, fs, "", <<>>, FALSE)
  /\ pc = "idle"
  /\ callLog = <<>>
  /\ schemaModule = {}
  /\ nOps = 0
  /\ nWrites = 0
  /\ depIn = Undefined
  /\ depOut = [done |-> FALSE, value |-> <<>>]

\* helper.init(filepath, options)
CallInit ==
  /\ pc = "idle"
  /\ nOps < MaxOps
  /\ \E filepath \in Filepaths, options \in OptionsArgs :
       \E o \in {init(fs, config, filepath, options)} :
          /\ fs' = o.fs
          /\ config' = o.config
          /\ last' = Call("init", filepath, options, fs, o.err, o.ret, FALSE)
  /\ nOps' = nOps + 1
  /\ UNCHANGED <<ctorOptions, pc, callLog, schemaModule, nWrites, depIn, depOut>>

\* helper.build(filepath, options), up to the entry of buildSchema
CallBuild ==
  /\ pc = "idle"
  /\ nOps < MaxOps
  /\ \E filepath \in Filepaths, options \in OptionsArgs :
       \E o \in {build(fs, config, filepath, options)} :
          /\ config' = o.config
          /\ schemaModule' = o.exports
          /\ pc' = IF o.err = "" THEN "buildSchema" ELSE "idle"
          /\ last' = Call("build", filepath, options, fs,
                          IF o.err = "" THEN "pending" ELSE o.err, <<>>, o.imported)
  /\ callLog' = <<>>
  /\ nOps' = nOps + 1
  /\ UNCHANGED <<fs, ctorOptions, nWrites, depIn, depOut>>

\* The next statement of buildSchema (synchronous: nothing else runs meanwhile)
BuildSchemaStep ==
  /\ pc = "buildSchema"
  /\ \E statement \in {buildSchemaStatement(Len(callLog) + 1)},
        finished \in {Len(callLog) + 1 = BuildSchemaLength} :
     \E r \in {buildSchemaStep(fs, config, schemaModule, statement)} :
        /\ fs' = r.fs
        /\ callLog' = IF r.err = "" THEN Append(callLog, statement) ELSE callLog
        /\ pc' = IF r.err # "" \/ finished THEN "idle" ELSE "buildSchema"
        /\ last' = [last EXCEPT !.err = IF r.err # "" THEN r.err
                                        ELSE IF finished THEN "" ELSE "pending"]
  /\ UNCHANGED <<config, ctorOptions, schemaModule, nOps, nWrites, depIn, depOut>>

\* helper.cleanup()
CallCleanup ==
  /\ pc = "idle"
  /\ nOps < MaxOps
  /\ \E r \in {cleanup(fs, config)} :
       /\ fs' = r.fs
       /\ last' = Call("cleanup", Undefined, Undefined, fs, r.err, <<>>, FALSE)
  /\ nOps' = nOps + 1
  /\ UNCHANGED <<config, ctorOptions, pc, callLog, schemaModule, nWrites, depIn, depOut>>

\* hyperdb-helper init [dir], the command of bin/cli.mjs, run in a process of its own
CliInit ==
  /\ pc = "idle"
  /\ nOps < MaxOps
  /\ \E filepath \in CliFilepaths :
       \E o \in {cliInit(fs, filepath)} :
          /\ fs' = o.fs
          /\ last' = Call("cli init", filepath, Undefined, fs, o.err, o.ret, FALSE)
  /\ nOps' = nOps + 1
  /\ UNCHANGED <<config, ctorOptions, pc, callLog, schemaModule, nWrites, depIn, depOut>>

\* The user edits the project by hand between two calls.
UserWrites ==
  /\ pc = "idle"
  /\ nWrites < MaxUserWrites
  /\ \E bundle \in UserBundles : fs' = WriteAll(fs, UserFiles(bundle))
  /\ nWrites' = nWrites + 1
  /\ last' = Call("none", Undefined, Undefined, fs, "", <<>>, FALSE)
  /\ UNCHANGED <<config, ctorOptions, pc, callLog, schemaModule, nOps, depIn, depOut>>

Next == CallInit \/ CallBuild \/ BuildSchemaStep \/ CallCleanup \/ CliInit \/ UserWrites

Spec == Init /\ [][Next]_vars

\* ------------------------------------------- the dependency check, alone

\* Package manifests handed to the dependency check: no manifest, a manifest
\* without a dependencies map, and every dependencies map over these names
\* with an exact or an empty ("any version") version string.
DependencyNames == {"hyperschema", "hyperdb", "corestore", "b4a"}
DependencyMaps == UNION {[S -> {"", "^1.0.0"}] : S \in SUBSET DependencyNames}
PackageInputs ==
  {Undefined} \cup
  {Object(type, deps) : type \in {Undefined, Word("module")},
                        deps \in {Undefined} \cup {Deps(m) : m \in DependencyMaps}}

DepInit ==
  /\ fs = InitialFs("none", FALSE)
  /\ ctorOptions = EmptyObj
  /\ config = Constructor(ctorOptions)
  /\ last = Call("none", Undefined, Undefined, fs, "", <<>>, FALSE)
  /\ pc = "idle"
  /\ callLog = <<>>
  /\ schemaModule = {}
  /\ nOps = 0
  /\ nWrites = 0
  /\ depIn \in PackageInputs
  /\ depOut = [done |-> FALSE, value |-> <<>>]

\* checkPackageDependencies() with this.config.package = depIn
CheckDependencies ==
  /\ ~depOut.done
  /\ depOut' = [done |-> TRUE, value |-> checkPackageDependencies(depIn)]
  /\ UNCHANGED <<fs, config, ctorOptions, last, pc, callLog, schemaModule, nOps, nWrites, depIn>>

DepNext == CheckDependencies

DepSpec == DepInit /\ [][DepNext]_vars

\* ----------------------------------------------------------------- claims

\* What the last call was applied to.
LastDir == getDatabaseConfigDirectory(last.filepath)
DirExistedBefore == Key(LastDir) \in DOMAIN last.before
PackageJsonBefore == <<"proj", "package.json">> \in DOMAIN last.before
IndexKey == Append(Parent(Key(LastDir)), "index.js")
IndexExistedBefore == IndexKey \in DOMAIN last.before
ExamplesSet == last.options # Undefined /\ Truthy(last.options.examples)
\* The call got as far as a merged configuration (mergeConfig returned).
Merged == last.op \in {"init", "build"} /\ last.options # Undefined
\* The default export of the config.js that was in the database directory.
UserConfigBefore ==
  IF Append(Key(LastDir), "config.js") \in DOMAIN last.before
     /\ last.before[Append(Key(LastDir), "config.js")].k = "configModule"
    THEN UserConfigModule(last.before[Append(Key(LastDir), "config.js")].v)
    ELSE EmptyObj
ConfigurablePaths == {"generatedCodeDirectory", "functionsFilepath", "schemaFilepath",
                      "configFilepath", "projectPackageJsonFilepath"}
DerivedPaths == {"databaseConfigJsonFilepath", "generatedPackageJsonFilepath",
                 "hyperschemaDirectory", "hyperdbDirectory"}
\* A path resolved against a base directory.
ResolvedAgainst(base, p) ==
  IF p.abs THEN p ELSE Path(TRUE, NormSegs(base.segs \o p.segs, <<>>, TRUE))

\* C1 (as stated): whenever the target directory already exists, init fails
\* with the 'directory already exists' error and the file system is unchanged.
C1_Original ==
  (last.op = "init" /\ DirExistedBefore) =>
    (last.err = ErrDirExists /\ fs = last.before)

\* C1 (amended): whenever the target directory already exists, init fails and
\* the file system is unchanged; the error is 'directory already exists' when
\* init was given an options object and the working directory has a package.json.
C1_RefusesOverwrite ==
  (last.op = "init" /\ DirExistedBefore) =>
    /\ last.err # ""
    /\ fs = last.before
    /\ (last.options # Undefined /\ PackageJsonBefore) => last.err = ErrDirExists

\* C1 witness: a second init on a directory a first init created is refused.
C1_Witness ==
  /\ last.op = "init" /\ nOps = 2 /\ DirExistedBefore
  /\ last.err = ErrDirExists /\ fs = last.before
  /\ Key(LastDir) = <<"proj", "db", "main">>

\* C2 (as stated): when the target directory does not exist and the working
\* directory has a package.json, init returns without error and the database
\* directory, config, functions and schema files, the generated directory and
\* both package.json files exist; the example index.js is written iff examples is set.
C2_InitCreatesFixedSet ==
  (last.op = "init" /\ ~DirExistedBefore /\ PackageJsonBefore) =>
    /\ last.err = ""
    /\ \A name \in {<<>>, <<"config.js">>, <<"functions.js">>, <<"schema.js">>,
                    <<"generated">>, <<"package.json">>, <<"generated", "package.json">>} :
         Key(LastDir) \o name \in DOMAIN fs
    /\ ExamplesSet => (IndexKey \in DOMAIN fs /\ fs[IndexKey].k = "exampleIndex")
    /\ ~ExamplesSet => (IndexExistedBefore = (IndexKey \in DOMAIN fs)
                         /\ (IndexExistedBefore => fs[IndexKey] = last.before[IndexKey]))

\* C3: the builder calls of a build are always an initial part of the fixed
\* order, a build that returns made all six, and while the database builder
\* exists the schema output is on disk.
BuilderOrder ==
  <<"Hyperschema.from", "createSchema", "Hyperschema.toDisk",
    "HyperDB.from", "createDatabase", "HyperDB.toDisk">>
C3_BuildOrder ==
  /\ IsPrefix(callLog, BuilderOrder)
  /\ (last.op = "build" /\ last.err = "") => callLog = BuilderOrder
  /\ (pc = "buildSchema" /\ \E i \in 1 .. Len(callLog) : callLog[i] = "HyperDB.from") =>
       /\ \E j \in 1 .. Len(callLog) : callLog[j] = "Hyperschema.toDisk"
       /\ Append(Key(config["hyperschemaDirectory"]), "index.js") \in DOMAIN fs

\* C3 witness: a build ran to its end.
C3_Witness ==
  last.op = "build" /\ last.err = "" /\ pc = "idle" /\ callLog = BuilderOrder

C5_AbsolutePaths ==
  Merged =>
    /\ \A k \in ConfigurablePaths \cup DerivedPaths \cup {"databaseConfigDirectory"} :
         k \in DOMAIN config /\ config[k].t = "string" /\ config[k].abs
    /\ \A k \in ConfigurablePaths :
         /\ (k \in DOMAIN UserConfigBefore /\ UserConfigBefore[k].abs) =>
              config[k] = UserConfigBefore[k]
         /\ (k \in DOMAIN UserConfigBefore /\ ~UserConfigBefore[k].abs
               /\ UserConfigBefore[k] # EmptyString) =>
              config[k].segs = NormSegs(config["databaseConfigDirectory"].segs
                                        \o UserConfigBefore[k].segs, <<>>, TRUE)
         /\ k \notin DOMAIN UserConfigBefore =>
              config[k].segs = NormSegs(config["databaseConfigDirectory"].segs
                                        \o defaultConfig[k].segs, <<>>, TRUE)
    /\ \A k \in DerivedPaths :
         IsPrefix(IF k = "databaseConfigJsonFilepath"
                    THEN config["databaseConfigDirectory"].segs
                    ELSE config["generatedCodeDirectory"].segs, config[k].segs)
    /\ (last.filepath # Undefined /\ last.filepath.abs) =>
         config["databaseConfigDirectory"] = last.filepath
    /\ (last.filepath # Undefined /\ ~last.filepath.abs) =>
         config["databaseConfigDirectory"].segs = Cwd.segs \o last.filepath.segs
    /\ last.filepath = Undefined =>
         config["databaseConfigDirectory"].segs = Cwd.segs \o <<"database">>

\* C5 witness: a relative argument, a relative and an absolute user value.
C5_Witness ==
     /\ Merged /\ last.filepath = Undefined
     /\ config["generatedCodeDirectory"] = Path(TRUE, <<"out">>)
     /\ config["schemaFilepath"] = Path(TRUE, <<"proj", "database", "s.js">>)
     /\ config["hyperdbDirectory"] = Path(TRUE, <<"out", "database">>)

\* C6 (as stated): the dependency check returns the required names without
\* an entry in the dependencies map, in the order of the required list; all
\* of them when there is no manifest or no dependencies map.
C6_MissingDependencies ==
  depOut.done =>
    depOut.value =
      IF depIn = Undefined \/ depIn.deps = Undefined
        THEN <<"hyperschema", "hyperdb", "corestore">>
        ELSE SelectSeq(<<"hyperschema", "hyperdb", "corestore">>,
                       LAMBDA d : d \notin DOMAIN depIn.deps.m)

\* C7 (as stated): build on a directory that does not exist fails with the
\* 'directory not found' error, loads no schema module, calls no builder and
\* leaves the file system unchanged.
C7_BuildMissingDirectory ==
  (last.op = "build" /\ ~DirExistedBefore) =>
    /\ last.err = ErrDirNotFound
    /\ ~last.imported
    /\ callLog = <<>>
    /\ fs = last.before

\* C8 (as stated): with examples set and an index.js next to the database
\* directory, init fails with 'index.js already exists', the file system is
\* unchanged and the database directory does not exist afterwards.
C8_Original ==
  (last.op = "init" /\ ExamplesSet /\ IndexExistedBefore) =>
    /\ last.err = ErrIndexExists
    /\ fs[IndexKey] = last.before[IndexKey]
    /\ Key(LastDir) \notin DOMAIN fs

\* C8 (amended): with examples set and an index.js next to the database
\* directory, init fails and the file system is unchanged; when moreover the
\* working directory has a package.json and the database directory does not
\* exist, the error is 'index.js already exists' and the directory is not created.
C8_IndexGuard ==
  (last.op = "init" /\ ExamplesSet /\ IndexExistedBefore) =>
    /\ last.err # ""
    /\ fs = last.before
    /\ (PackageJsonBefore /\ ~DirExistedBefore) =>
         (last.err = ErrIndexExists /\ Key(LastDir) \notin DOMAIN fs)

\* C8 witness: init with examples refused because of an existing index.js.
C8_Witness ==
  /\ last.op = "init" /\ ExamplesSet /\ IndexExistedBefore /\ ~DirExistedBefore
  /\ last.err = ErrIndexExists
  /\ fs = last.before

\* C9 (as stated): init and build called with no arguments do not fail for
\* the missing arguments, and init() does what init('./database', { examples: false }) does.
C9_NoArguments ==
  (last.op \in {"init", "build"} /\ last.filepath = Undefined /\ last.options = Undefined) =>
    /\ last.err # ErrOptions
    /\ last.op = "init" =>
         /\ last.err = init(last.before, EmptyObj, Path(FALSE, <<".", "database">>),
                            Options(Bool(FALSE))).err
         /\ fs = init(last.before, EmptyObj, Path(FALSE, <<".", "database">>),
                      Options(Bool(FALSE))).fs

\* C10 (as stated): every key given to the constructor is carried by the
\* config of a following init or build, unless the user config sets the key.
C10_ConstructorOptions ==
  Merged =>
    \A k \in DOMAIN ctorOptions :
      k \notin DOMAIN UserConfigBefore =>
        config[k] = ResolvedAgainst(config["databaseConfigDirectory"], ctorOptions[k])

\* C11 (as stated, for an init that is given its options object): when the
\* working directory has no package.json, init throws 'Error: package.json
\* not found in project directory' and the file system is unchanged.
C11_NoPackageJson ==
  (last.op = "init" /\ last.options # Undefined /\ ~PackageJsonBefore) =>
    (last.err = ErrNoPackageJson /\ fs = last.before)

\* A helper whose init or build got as far as a merged configuration holds
\* the derived fields; before that this.config is the constructor's.
ConfigMerged == "hyperdbDirectory" \in DOMAIN config
\* The database directory the helper works on: the one of its merged
\* configuration, the default one before any.
HelperDatabaseDirectory ==
  IF ConfigMerged THEN config["databaseConfigDirectory"] ELSE getDatabaseConfigDirectory(Undefined)
\* Its generated code directory: the configured value, resolved against the
\* database directory as every configured path is.
HelperGeneratedCodeDirectory ==
  ResolvedAgainst(HelperDatabaseDirectory, config["generatedCodeDirectory"])
\* Its config, schema and functions files and its package.json.
HelperDatabaseFiles ==
  {Key(ResolvedAgainst(HelperDatabaseDirectory, IF ConfigMerged THEN config[k] ELSE defaultConfig[k])) :
     k \in {"configFilepath", "schemaFilepath", "functionsFilepath"}}
  \cup {Append(Key(HelperDatabaseDirectory), "package.json")}
\* A file system without a directory and everything in it.
Without(f, key) == [x \in {y \in DOMAIN f : ~IsPrefix(key, y)} |-> f[x]]
\* cleanup did what C12 says of it.
CleanupAsClaimed ==
  /\ last.err = ""
  /\ fs = Without(last.before, Key(HelperGeneratedCodeDirectory))
  /\ \A key \in HelperDatabaseFiles :
       /\ (key \in DOMAIN fs) = (key \in DOMAIN last.before)
       /\ key \in DOMAIN fs => fs[key] = last.before[key]

\* C12 (as stated): cleanup removes the generated code directory of the
\* helper's database directory with everything in it and nothing else, leaves
\* the config, schema and functions files and the database-directory
\* package.json as they were, and returns without error, whether or not the
\* generated code directory exists.
C12_Cleanup == last.op = "cleanup" => CleanupAsClaimed

\* C12, for a helper whose configuration an init or build has merged.
C12_AfterMerge == (last.op = "cleanup" /\ ConfigMerged) => CleanupAsClaimed

\* C12, reachability of its case: a cleanup that removed a generated code
\* directory holding the output of a build.
C12_AfterMergeWitness ==
  /\ last.op = "cleanup" /\ ConfigMerged /\ CleanupAsClaimed
  /\ Key(HelperGeneratedCodeDirectory) \in DOMAIN last.before
  /\ \E key \in DOMAIN last.before : last.before[key].k = "generated"
                                      /\ IsPrefix(Key(HelperGeneratedCodeDirectory), key)
  /\ HelperDatabaseFiles \cap DOMAIN fs # {}

\* The init command of bin/cli.mjs was run without a directory argument.
CliNoArgument == last.op = "cli init" /\ last.filepath = Undefined
\* What the claim says it creates, in the working directory /proj.
CliCreatedKeys ==
  {<<"proj", "schemas">>, <<"proj", "schemas", "config.js">>,
   <<"proj", "schemas", "functions.js">>, <<"proj", "schemas", "schemas.js">>,
   <<"proj", "index.js">>}
CliCreated ==
  /\ last.err = ""
  /\ CliCreatedKeys \subseteq DOMAIN fs
  /\ fs[<<"proj", "schemas">>] = Dir
  /\ fs[<<"proj", "schemas", "config.js">>] = File("cliConfigTemplate", "")
  /\ fs[<<"proj", "schemas", "functions.js">>] = File("cliFunctionsTemplate", "")
  /\ fs[<<"proj", "schemas", "schemas.js">>] = File("cliSchemasTemplate", "")
  /\ fs[<<"proj", "index.js">>] = File("cliExampleIndex", "")
\* The working directory had neither a schemas entry nor an index.js.
CliFresh ==
  <<"proj", "schemas">> \notin DOMAIN last.before /\ <<"proj", "index.js">> \notin DOMAIN last.before

====
